---- MODULE Spec2Model ----
(***************************************************************************)
(* DXF analysis backend (src/backend/main.py): the sampler, the design     *)
(* statistics, the phantom classifier and the aggregation of               *)
(* DXFProcessor, and the /analyze-dxf endpoint that drives the module's    *)
(* single DXFProcessor instance.                                           *)
(*                                                                         *)
(* Numbers.  Python floats are modelled by integers.  Coordinates are      *)
(* whole metres of the source's millimetres (MMPerMetre), so that the      *)
(* 50000 mm sanity bound, the origin and ordinary design coordinates fit   *)
(* in TLC's integers after squaring.  Lengths are kept to 1/LenScale of a  *)
(* metre.  A design centre, a mean of coordinates, is kept as the exact    *)
(* fraction (sx/n, sy/n).  Comparisons of distances are made on squares,   *)
(* which is exact.                                                         *)
(***************************************************************************)
EXTENDS Integers, Sequences, FiniteSets, TLC

\* ------------------------------------------------------------- bounds
MaxEntities == 2     \* entities in one DXF file
LenScale == 100      \* length units per metre

\* -------------------------------------------------- program constants
MMPerMetre == 1000
ExtremeCoordMM == 50000
FallbackDimensionMM == 1000
LongLineFactor == 10
FarLineFactor == 5
CircleSamples == 16
ArcSegments == 16

ExtremeCoord == ExtremeCoordMM \div MMPerMetre
FallbackDimension == FallbackDimensionMM \div MMPerMetre

\* --------------------------------------------------------- arithmetic
Abs(n) == IF n < 0 THEN -n ELSE n

Max2(a, b) == IF a >= b THEN a ELSE b

RECURSIVE ISqrtBetween(_, _, _)
ISqrtBetween(n, lo, hi) ==
    IF lo >= hi THEN lo
    ELSE LET mid == (lo + hi + 1) \div 2
         IN IF mid * mid <= n THEN ISqrtBetween(n, mid, hi)
                              ELSE ISqrtBetween(n, lo, mid - 1)

\* math.sqrt to the model's resolution: the largest r with r*r <= n.
ISqrt(n) == ISqrtBetween(n, 0, 46340)

\* n/d rounded to the nearest integer (d > 0).
RoundDiv(n, d) == (2 * n + d) \div (2 * d)

RECURSIVE SumSeq(_)
SumSeq(s) == IF s = <<>> THEN 0 ELSE Head(s) + SumSeq(Tail(s))

MinOf(S) == CHOOSE m \in S : \A k \in S : m <= k

MaxOf(S) == CHOOSE m \in S : \A k \in S : m >= k

\* 1000 * cos(k * 2*pi/64) for k = 0..16, the first quadrant.
CosQuadrant ==
    <<1000, 995, 981, 957, 924, 882, 831, 773, 707,
      634, 556, 471, 383, 290, 195, 98, 0>>

\* 1000 * cos of k sixty-fourths of a turn, any integer k.
Cos64(k) ==
    LET m == k % 64
    IN IF m <= 16 THEN CosQuadrant[m + 1]
       ELSE IF m <= 32 THEN -CosQuadrant[32 - m + 1]
       ELSE IF m <= 48 THEN -CosQuadrant[m - 32 + 1]
       ELSE CosQuadrant[64 - m + 1]

Sin64(k) == Cos64(k - 16)

\* ------------------------------------------------------- data model
Point(x, y) == [x |-> x, y |-> y]

\* Point.distance_to, squared.
Distance2(p, q) == (p.x - q.x) * (p.x - q.x) + (p.y - q.y) * (p.y - q.y)

\* Point.distance_to, in length units.
distance_to(p, q) == ISqrt(Distance2(p, q) * LenScale * LenScale)

BoundingBox(min_x, min_y, max_x, max_y) ==
    [min_x |-> min_x, min_y |-> min_y, max_x |-> max_x, max_y |-> max_y,
     width |-> max_x - min_x, height |-> max_y - min_y,
     area |-> (max_x - min_x) * (max_y - min_y)]

RecognisedTypes == {"LINE", "LWPOLYLINE", "POLYLINE", "CIRCLE", "ARC"}

\* A decoded DXF entity as the processor reads it.  pts: the endpoints of a
\* LINE, the vertices of a polyline, the centre of a CIRCLE or ARC.  Angles
\* are in quarter turns (90 degrees).  bad = k > 0: the k-th read of the
\* geometry raises.  layerOk = FALSE: reading entity.dxf.layer raises.
Entity(type, pts, radius, a0, a1, layer, invisible, bad, layerOk) ==
    [type |-> type, pts |-> pts, radius |-> radius,
     start_angle |-> a0, end_angle |-> a1,
     layer |-> layer, invisible |-> invisible,
     bad |-> bad, layerOk |-> layerOk]

\* str.upper over the layer names of the model.
Upper(s) ==
    CASE s = "Defpoints" -> "DEFPOINTS"
      [] s = "hidden" -> "HIDDEN"
      [] s = "cut" -> "CUT"
      [] OTHER -> s

phantom_layers == {"DEFPOINTS", "PHANTOM", "HIDDEN", "CONSTRUCTION", "TEMP"}

\* --------------------------------------------------------- sampler
CirclePoint(center, radius, k) ==
    Point(center.x + RoundDiv(radius * Cos64(k), 1000),
          center.y + RoundDiv(radius * Sin64(k), 1000))

\* DXFProcessor.get_entity_points: an exception keeps the points appended
\* before it (none, except for the vertices of a polyline).
get_entity_points(entity) ==
    CASE entity.type = "LINE" ->
           IF entity.bad > 0 THEN <<>> ELSE <<entity.pts[1], entity.pts[2]>>
      [] entity.type \in {"LWPOLYLINE", "POLYLINE"} ->
           IF entity.bad > 0
           THEN SubSeq(entity.pts, 1, entity.bad - 1)
           ELSE entity.pts
      [] entity.type = "CIRCLE" ->
           IF entity.bad > 0 THEN <<>>
           ELSE [i \in 1..CircleSamples |->
                   CirclePoint(entity.pts[1], entity.radius,
                               (i - 1) * (64 \div CircleSamples))]
      [] entity.type = "ARC" ->
           IF entity.bad > 0 THEN <<>>
           ELSE [i \in 1..(ArcSegments + 1) |->
                   CirclePoint(entity.pts[1], entity.radius,
                               16 * entity.start_angle
                               + ((entity.end_angle - entity.start_angle)
                                  * 16 * (i - 1)) \div ArcSegments)]
      [] OTHER -> <<>>

\* DXFProcessor.calculate_entity_length, in length units; 2*pi = 6.28.
calculate_entity_length(entity, points) ==
    CASE entity.type = "LINE" ->
           IF Len(points) >= 2 THEN distance_to(points[1], points[2]) ELSE 0
      [] entity.type \in {"LWPOLYLINE", "POLYLINE"} ->
           SumSeq([i \in 1..(Len(points) - 1) |->
                     distance_to(points[i], points[i + 1])])
      [] entity.type = "CIRCLE" ->
           IF entity.bad > 0 THEN 0
           ELSE (628 * entity.radius * LenScale) \div 100
      [] entity.type = "ARC" ->
           IF entity.bad > 0 THEN 0
           ELSE (Abs(entity.end_angle - entity.start_angle) * 157
                 * entity.radius * LenScale) \div 100
      [] OTHER -> 0

\* ------------------------------------------------------ classifier
Reason(msg, layer, nums) == [msg |-> msg, layer |-> layer, nums |-> nums]

NoReason == Reason("None", "", <<>>)

Verdict(is_phantom, reason) == [is_phantom |-> is_phantom, reason |-> reason]

\* abs(p.x) < 0.001 and abs(p.y) < 0.001, the coordinates in millimetres.
AtOrigin(p) ==
    /\ Abs(p.x) * MMPerMetre * 1000 < 1
    /\ Abs(p.y) * MMPerMetre * 1000 < 1

\* abs(p.x) > 50000 or abs(p.y) > 50000.
IsExtreme(p) == Abs(p.x) > ExtremeCoord \/ Abs(p.y) > ExtremeCoord

\* Twice n times the offset of the midpoint of start-end from the centre
\* (sx/n, sy/n), squared: (2n * distance_to_design)^2.
MidOffset2(start, end, c) ==
    LET dx == c.n * (start.x + end.x) - 2 * c.sx
        dy == c.n * (start.y + end.y) - 2 * c.sy
    IN dx * dx + dy * dy

\* TouchesOrigin that looks at the start point only.
TouchesOrigin_StartOnly(start, end) == AtOrigin(start)

\* An endpoint of the line at the origin (lines 182-183).
TouchesOrigin(start, end) == AtOrigin(start) \/ AtOrigin(end)

Valid == Verdict(FALSE, Reason("Entidad valida", "", <<>>))

\* The layer filter of is_phantom_entity (lines 168-171).
LayerVerdict(entity) ==
    IF Upper(entity.layer) \in phantom_layers
    THEN Verdict(TRUE, Reason("Capa fantasma", Upper(entity.layer), <<>>))
    ELSE Valid

\* The visibility filter of is_phantom_entity (lines 174-175).
InvisibleVerdict(entity) ==
    IF entity.invisible
    THEN Verdict(TRUE, Reason("Entidad invisible", "", <<>>))
    ELSE Valid

\* The line filters of is_phantom_entity (lines 178-195).
LineVerdict(entity, points, design_center, max_design_dimension) ==
    IF ~(entity.type = "LINE" /\ Len(points) >= 2) THEN Valid
    ELSE
    LET start == points[1]
        end == points[2]
        long == LongLineFactor * max_design_dimension
        far == 2 * design_center.n * FarLineFactor * max_design_dimension
    IN IF TouchesOrigin(start, end)
       THEN Verdict(TRUE, Reason("Linea conecta con origen (0,0)", "", <<>>))
       ELSE IF Distance2(start, end) > long * long
       THEN Verdict(TRUE, Reason("Linea demasiado larga", "",
                                 <<distance_to(start, end)>>))
       ELSE IF MidOffset2(start, end, design_center) > far * far
       THEN Verdict(TRUE, Reason("Linea alejada del diseno", "",
                <<(ISqrt(MidOffset2(start, end, design_center)) * LenScale)
                  \div (2 * design_center.n)>>))
       ELSE Valid

\* The extreme-coordinate filter (lines 198-200): the first such point.
ExtremeVerdict(points) ==
    LET hits == {i \in 1..Len(points) : IsExtreme(points[i])}
    IN IF hits = {} THEN Valid
       ELSE LET p == points[MinOf(hits)]
            IN Verdict(TRUE, Reason("Coordenadas extremas", "", <<p.x, p.y>>))

\* The verdict of the first filter, in the order given, that rejects.
RECURSIVE FirstRejection(_)
FirstRejection(verdicts) ==
    IF verdicts = <<>> THEN Valid
    ELSE IF Head(verdicts).is_phantom THEN Head(verdicts)
    ELSE FirstRejection(Tail(verdicts))

\* is_phantom_entity with the extreme-coordinate filter ahead of the line
\* filters.
is_phantom_entity_ExtremeFirst(entity, points, design_center, max_design_dimension) ==
    IF points = <<>>
    THEN Verdict(TRUE, Reason("Sin puntos validos", "", <<>>))
    ELSE IF ~entity.layerOk
    THEN Verdict(TRUE, Reason("Error procesando entidad", "", <<>>))
    ELSE FirstRejection(<<LayerVerdict(entity),
                          InvisibleVerdict(entity),
                          ExtremeVerdict(points),
                          LineVerdict(entity, points, design_center,
                                      max_design_dimension)>>)

\* DXFProcessor.is_phantom_entity.  Reading the layer is the first
\* statement of the guarded block: when it raises, the handler's verdict is
\* returned.
is_phantom_entity(entity, points, design_center, max_design_dimension) ==
    IF points = <<>>
    THEN Verdict(TRUE, Reason("Sin puntos validos", "", <<>>))
    ELSE IF ~entity.layerOk
    THEN Verdict(TRUE, Reason("Error procesando entidad", "", <<>>))
    ELSE FirstRejection(<<LayerVerdict(entity),
                          InvisibleVerdict(entity),
                          LineVerdict(entity, points, design_center,
                                      max_design_dimension),
                          ExtremeVerdict(points)>>)

\* ----------------------------------------------- design statistics
RECURSIVE AllPoints(_)
AllPoints(entities) ==
    IF entities = <<>> THEN <<>>
    ELSE (IF Head(entities).type \in RecognisedTypes
          THEN get_entity_points(Head(entities)) ELSE <<>>)
         \o AllPoints(Tail(entities))

Xs(points) == {points[i].x : i \in 1..Len(points)}

Ys(points) == {points[i].y : i \in 1..Len(points)}

Stats(center, max_dimension) ==
    [center |-> center, max_dimension |-> max_dimension]

\* The centre (sx/n, sy/n).
Mean(sx, sy, n) == [sx |-> sx, sy |-> sy, n |-> n]

\* get_design_statistics whose fallback extent is 0.
get_design_statistics_ZeroFallback(entities) ==
    LET all_points == AllPoints(entities)
    IN IF all_points = <<>> THEN Stats(Mean(0, 0, 1), 0)
       ELSE Stats(Mean(SumSeq([i \in 1..Len(all_points) |-> all_points[i].x]),
                       SumSeq([i \in 1..Len(all_points) |-> all_points[i].y]),
                       Len(all_points)),
                  Max2(MaxOf(Xs(all_points)) - MinOf(Xs(all_points)),
                       MaxOf(Ys(all_points)) - MinOf(Ys(all_points))))

\* DXFProcessor.get_design_statistics.
get_design_statistics(entities) ==
    LET all_points == AllPoints(entities)
    IN IF all_points = <<>> THEN Stats(Mean(0, 0, 1), FallbackDimension)
       ELSE Stats(Mean(SumSeq([i \in 1..Len(all_points) |-> all_points[i].x]),
                       SumSeq([i \in 1..Len(all_points) |-> all_points[i].y]),
                       Len(all_points)),
                  Max2(MaxOf(Xs(all_points)) - MinOf(Xs(all_points)),
                       MaxOf(Ys(all_points)) - MinOf(Ys(all_points))))

\* ------------------------------------------------------ aggregation
ProcessedEntity(entity_type, points, length, layer, is_valid, rejection_reason) ==
    [entity_type |-> entity_type, points |-> points, length |-> length,
     layer |-> layer, is_valid |-> is_valid,
     rejection_reason |-> rejection_reason]

RECURSIVE EntityPoints(_)
EntityPoints(entities) ==
    IF entities = <<>> THEN <<>>
    ELSE Head(entities).points \o EntityPoints(Tail(entities))

\* calculate_bounding_box that looks at the first point of each entity only.
calculate_bounding_box_FirstPoints(entities) ==
    LET firsts == EntityPoints([i \in 1..Len(entities) |->
                     [points |-> SubSeq(entities[i].points, 1, 1)]])
    IN IF firsts = <<>> THEN BoundingBox(0, 0, 0, 0)
       ELSE BoundingBox(MinOf(Xs(firsts)), MinOf(Ys(firsts)),
                        MaxOf(Xs(firsts)), MaxOf(Ys(firsts)))

\* DXFProcessor.calculate_bounding_box.
calculate_bounding_box(entities) ==
    IF entities = <<>> THEN BoundingBox(0, 0, 0, 0)
    ELSE LET all_points == EntityPoints(entities)
         IN IF all_points = <<>> THEN BoundingBox(0, 0, 0, 0)
            ELSE BoundingBox(MinOf(Xs(all_points)), MinOf(Ys(all_points)),
                             MaxOf(Xs(all_points)), MaxOf(Ys(all_points)))

Lengths(entities) == [i \in 1..Len(entities) |-> entities[i].length]

\* The success record of process_dxf_file (lines 285-303).  Lengths are in
\* length units, which round(_, 2) of the millimetres and round(_, 3) of
\* the metres leave as they are.
ResultRecord(total_entities, valid, phantom, stats, bbox, total_cut_length) ==
    [success |-> TRUE,
     statistics |-> [total_entities |-> total_entities,
                     valid_entities |-> Len(valid),
                     phantom_entities |-> Len(phantom),
                     design_center |-> stats.center,
                     max_design_dimension |-> stats.max_dimension],
     bounding_box |-> bbox,
     cut_length |-> [total_mm |-> total_cut_length,
                     total_m |-> total_cut_length],
     entities |-> [valid |-> valid, phantom |-> phantom]]

\* BuildResult that sums the lengths of every classified entity.
BuildResult_SumAll(entities, valid, phantom, stats) ==
    ResultRecord(Len(entities), valid, phantom, stats,
                 calculate_bounding_box(valid),
                 SumSeq(Lengths(valid \o phantom)))

\* The metrics and the response of process_dxf_file (lines 279-303).
BuildResult(entities, valid, phantom, stats) ==
    ResultRecord(Len(entities), valid, phantom, stats,
                 calculate_bounding_box(valid),
                 SumSeq(Lengths(valid)))

\* The failure record of process_dxf_file (lines 307-313).
Failure(error) == [success |-> FALSE, error |-> error]

\* ------------------------------------------------------------ state
\* The module's processor (line 352): its two lists are fields of the one
\* DXFProcessor every request uses.
VARIABLES valid_entities, phantom_entities

\* Per request: where analyze_dxf / process_dxf_file stands, the
\* entities read from the file, the loop position, the design statistics,
\* and the value process_dxf_file returned.
VARIABLES pc, all_entities, idx, design_stats, result

\* A direct call of is_phantom_entity: its arguments and what it returned.
VARIABLES cEntity, cStats, cDone, cVerdict

procVars == <<valid_entities, phantom_entities>>

runVars == <<pc, all_entities, idx, design_stats, result>>

callVars == <<cEntity, cStats, cDone, cVerdict>>

vars == <<valid_entities, phantom_entities, pc, all_entities, idx,
          design_stats, result, cEntity, cStats, cDone, cVerdict>>

\* The requests made of the service, each handled once.
Requests == {1, 2}

\* ------------------------------------------------------------ inputs
P00 == Point(0, 0)

P11 == Point(1, 1)

P31 == Point(3, 1)

P24 == Point(2, 4)

PFar == Point(51, 1)

PNeg == Point(1, -51)

Line(a, b, layer) == Entity("LINE", <<a, b>>, 0, 0, 0, layer, FALSE, 0, TRUE)

\* The entities a file of the model may hold.
FileEntities ==
    { Line(P11, P31, "CUT"),
      Entity("LINE", <<P11, P24>>, 0, 0, 0, "CUT", FALSE, 1, TRUE),
      Entity("LINE", <<P11, P31>>, 0, 0, 0, "", FALSE, 0, FALSE),
      Entity("POLYLINE", <<P11, P24, P31>>, 0, 0, 0, "CUT", FALSE, 3, TRUE),
      Entity("CIRCLE", <<P24>>, 2, 0, 0, "Defpoints", FALSE, 0, TRUE),
      Entity("SPLINE", <<P11, P31>>, 0, 0, 0, "CUT", FALSE, 0, TRUE) }

\* The files: every list of at most MaxEntities entities.
Files == UNION {[1..n -> FileEntities] : n \in 0..MaxEntities}

\* The arguments of a direct call of is_phantom_entity.
CallPoints == {P00, P11, P31, PFar, PNeg}

CallLayers == {"CUT", "Defpoints", "TEMP"}

CallEntities ==
    {Entity("LINE", <<a, b>>, 0, 0, 0, layer, invisible, bad, TRUE) :
        a \in CallPoints, b \in CallPoints, layer \in CallLayers,
        invisible \in BOOLEAN, bad \in {0, 1}}
    \cup {Entity("LINE", <<a, b>>, 0, 0, 0, "", FALSE, 0, FALSE) :
        a \in CallPoints, b \in CallPoints}
    \cup {Entity(type, <<P11, b, P24>>, 0, 0, 0, layer, invisible, bad, ok) :
        type \in {"LWPOLYLINE", "POLYLINE"}, b \in CallPoints,
        layer \in CallLayers, invisible \in BOOLEAN, bad \in {0, 1, 3},
        ok \in {TRUE}}
    \cup {Entity("CIRCLE", <<c>>, 2, 0, 0, layer, invisible, 0, TRUE) :
        c \in {P24, PFar}, layer \in CallLayers, invisible \in BOOLEAN}
    \cup {Entity("ARC", <<c>>, 1, 0, a1, layer, FALSE, 0, ok) :
        c \in {P31, PNeg}, a1 \in {1, 3}, layer \in CallLayers,
        ok \in BOOLEAN}

CallStats ==
    {Stats(Mean(sx, sy, n), m) :
        sx \in {4, 80}, sy \in {2}, n \in {1, 2}, m \in {0, 1, 4, 60}}

NoStats == Stats(Mean(0, 0, 1), 0)

NoResult == Failure("none")

\* ------------------------------------------------------------- Init
IdleRuns ==
    /\ pc = [r \in Requests |-> "new"]
    /\ all_entities = [r \in Requests |-> <<>>]
    /\ idx = [r \in Requests |-> 0]
    /\ design_stats = [r \in Requests |-> NoStats]
    /\ result = [r \in Requests |-> NoResult]

\* DXFProcessor.__init__ (lines 95-97), at the import of the module.
NewProcessor ==
    /\ valid_entities = <<>>
    /\ phantom_entities = <<>>

Init ==
    /\ NewProcessor
    /\ IdleRuns
    /\ cEntity = Line(P11, P31, "CUT")
    /\ cStats = NoStats
    /\ cDone = FALSE
    /\ cVerdict = Valid

\* ---------------------------------------------------------- actions
\* process_dxf_file holds the event loop from its call to its return: it
\* has no suspension point, and analyze_dxf is a coroutine of that loop.
EventLoopFree == \A q \in Requests : pc[q] \notin {"loaded", "loop"}

\* analyze_dxf up to its suspension in file.read() (lines 360-366).
Receive(r) ==
    /\ EventLoopFree
    /\ pc[r] = "new"
    /\ pc' = [pc EXCEPT ![r] = "reading"]
    /\ UNCHANGED <<all_entities, idx, design_stats, result>>
    /\ UNCHANGED procVars
    /\ UNCHANGED callVars

\* analyze_dxf refuses the upload with status 400: not a .dxf name (lines
\* 360-361), or the upload cannot be read (lines 369-370).
Refuse(r) ==
    /\ EventLoopFree
    /\ pc[r] \in {"new", "reading"}
    /\ pc' = [pc EXCEPT ![r] = "sent"]
    /\ UNCHANGED <<all_entities, idx, design_stats, result>>
    /\ UNCHANGED procVars
    /\ UNCHANGED callVars

\* The upload is read; process_dxf_file loads the file (lines 238-240).
Load(r) ==
    /\ EventLoopFree
    /\ pc[r] = "reading"
    /\ \E file \in Files :
         /\ all_entities' = [all_entities EXCEPT ![r] = file]
         /\ pc' = [pc EXCEPT ![r] = "loaded"]
    /\ UNCHANGED <<idx, design_stats, result>>
    /\ UNCHANGED procVars
    /\ UNCHANGED callVars

\* ezdxf.readfile raises: the handler of lines 307-313 answers.
LoadFails(r) ==
    /\ EventLoopFree
    /\ pc[r] = "reading"
    /\ result' = [result EXCEPT ![r] = Failure("readfile")]
    /\ pc' = [pc EXCEPT ![r] = "done"]
    /\ UNCHANGED <<all_entities, idx, design_stats>>
    /\ UNCHANGED procVars
    /\ UNCHANGED callVars

\* ResetList that leaves the list as the previous run left it.
ResetList_Keep(list) == list

\* What the reset of lines 243-244 leaves in a list.
ResetList(list) == <<>>

\* The reset of the lists and the design statistics (lines 243-249).
Start(r) ==
    /\ pc[r] = "loaded"
    /\ valid_entities' = ResetList(valid_entities)
    /\ phantom_entities' = ResetList(phantom_entities)
    /\ design_stats' =
         [design_stats EXCEPT ![r] = get_design_statistics(all_entities[r])]
    /\ idx' = [idx EXCEPT ![r] = 1]
    /\ pc' = [pc EXCEPT ![r] = "loop"]
    /\ UNCHANGED <<all_entities, result>>
    /\ UNCHANGED callVars

InLoop(r) == pc[r] = "loop" /\ idx[r] <= Len(all_entities[r])

Current(r) == all_entities[r][idx[r]]

\* An entity the loop passes over (lines 253-258).
Skipped(entity) ==
    \/ entity.type \notin RecognisedTypes
    \/ get_entity_points(entity) = <<>>

\* A loop iteration that ends in a continue.
LoopSkip(r) ==
    /\ InLoop(r)
    /\ Skipped(Current(r))
    /\ idx' = [idx EXCEPT ![r] = idx[r] + 1]
    /\ UNCHANGED <<pc, all_entities, design_stats, result>>
    /\ UNCHANGED procVars
    /\ UNCHANGED callVars

\* The record of lines 261-271 for an entity with points.
Processed(entity, stats) ==
    LET points == get_entity_points(entity)
        verdict == is_phantom_entity(entity, points, stats.center,
                                     stats.max_dimension)
    IN ProcessedEntity(entity.type, points,
                       calculate_entity_length(entity, points),
                       entity.layer, ~verdict.is_phantom,
                       IF verdict.is_phantom THEN verdict.reason
                                             ELSE NoReason)

\* AppendEntity that puts the entity at the front.
AppendEntity_Front(list, processed_entity) == <<processed_entity>> \o list

\* list.append (lines 274, 276).
AppendEntity(list, processed_entity) == Append(list, processed_entity)

\* A loop iteration that classifies the entity and files it (lines 256-276).
LoopClassify(r) ==
    /\ InLoop(r)
    /\ ~Skipped(Current(r))
    /\ Current(r).layerOk
    /\ LET processed_entity == Processed(Current(r), design_stats[r])
       IN IF processed_entity.is_valid
          THEN /\ valid_entities' =
                    AppendEntity(valid_entities, processed_entity)
               /\ UNCHANGED phantom_entities
          ELSE /\ phantom_entities' =
                    AppendEntity(phantom_entities, processed_entity)
               /\ UNCHANGED valid_entities
    /\ idx' = [idx EXCEPT ![r] = idx[r] + 1]
    /\ UNCHANGED <<pc, all_entities, design_stats, result>>
    /\ UNCHANGED callVars

\* A loop iteration in which str(entity.dxf.layer) of line 268 raises: no
\* handler stands between it and the one of lines 307-313.
LoopRaises(r) ==
    /\ InLoop(r)
    /\ ~Skipped(Current(r))
    /\ ~Current(r).layerOk
    /\ result' = [result EXCEPT ![r] = Failure("layer")]
    /\ pc' = [pc EXCEPT ![r] = "done"]
    /\ UNCHANGED <<all_entities, idx, design_stats>>
    /\ UNCHANGED procVars
    /\ UNCHANGED callVars

\* The end of the loop: metrics and response (lines 279-305).
Finish(r) ==
    /\ pc[r] = "loop"
    /\ idx[r] > Len(all_entities[r])
    /\ result' = [result EXCEPT ![r] =
                    BuildResult(all_entities[r], valid_entities,
                                phantom_entities, design_stats[r])]
    /\ pc' = [pc EXCEPT ![r] = "done"]
    /\ UNCHANGED <<all_entities, idx, design_stats>>
    /\ UNCHANGED procVars
    /\ UNCHANGED callVars

\* analyze_dxf returns the response (line 375) and ends.
Respond(r) ==
    /\ EventLoopFree
    /\ pc[r] = "done"
    /\ pc' = [pc EXCEPT ![r] = "sent"]
    /\ all_entities' = [all_entities EXCEPT ![r] = <<>>]
    /\ idx' = [idx EXCEPT ![r] = 0]
    /\ design_stats' = [design_stats EXCEPT ![r] = NoStats]
    /\ result' = [result EXCEPT ![r] = NoResult]
    /\ UNCHANGED procVars
    /\ UNCHANGED callVars

Next ==
    \E r \in Requests :
        \/ Receive(r)
        \/ Refuse(r)
        \/ Load(r)
        \/ LoadFails(r)
        \/ Start(r)
        \/ LoopSkip(r)
        \/ LoopClassify(r)
        \/ LoopRaises(r)
        \/ Finish(r)
        \/ Respond(r)

Spec == Init /\ [][Next]_vars

\* ------------------------------------- is_phantom_entity on its own
InitCall ==
    /\ NewProcessor
    /\ IdleRuns
    /\ cEntity \in CallEntities
    /\ cStats \in CallStats
    /\ cDone = FALSE
    /\ cVerdict = Valid

Call ==
    /\ ~cDone
    /\ cVerdict' = is_phantom_entity(cEntity, get_entity_points(cEntity),
                                     cStats.center, cStats.max_dimension)
    /\ cDone' = TRUE
    /\ UNCHANGED <<cEntity, cStats>>
    /\ UNCHANGED procVars
    /\ UNCHANGED runVars

NextCall == Call

SpecCall == InitCall /\ [][NextCall]_vars

\* ------------------------------------------ claims on is_phantom_entity
cPoints == get_entity_points(cEntity)

IsLine == cEntity.type = "LINE" /\ Len(cPoints) >= 2

\* The conditions of the ordered rules 1, 2, 3, 4a, 4b, 4c, 5, on the
\* arguments of the call.
RuleHolds ==
    <<cPoints = <<>>,
      Upper(cEntity.layer)
        \in {"DEFPOINTS", "PHANTOM", "HIDDEN", "CONSTRUCTION", "TEMP"},
      cEntity.invisible,
      IsLine /\ \E i \in {1, 2} : cPoints[i].x = 0 /\ cPoints[i].y = 0,
      IsLine /\ Distance2(cPoints[1], cPoints[2])
                  > 100 * cStats.max_dimension * cStats.max_dimension,
      IsLine /\ MidOffset2(cPoints[1], cPoints[2], cStats.center)
                  > 25 * 4 * cStats.center.n * cStats.center.n
                       * cStats.max_dimension * cStats.max_dimension,
      \E i \in 1..Len(cPoints) :
          Abs(cPoints[i].x) * MMPerMetre > 50000
          \/ Abs(cPoints[i].y) * MMPerMetre > 50000>>

RuleMsg ==
    <<"Sin puntos validos", "Capa fantasma", "Entidad invisible",
      "Linea conecta con origen (0,0)", "Linea demasiado larga",
      "Linea alejada del diseno", "Coordenadas extremas">>

Matching == {k \in 1..7 : RuleHolds[k]}

\* The verdict is that of the first rule, in the fixed order, that holds,
\* and valid with "Entidad valida" exactly when none holds.
FirstMatchDecides ==
    IF Matching = {}
    THEN ~cVerdict.is_phantom /\ cVerdict.reason.msg = "Entidad valida"
    ELSE cVerdict.is_phantom /\ cVerdict.reason.msg = RuleMsg[MinOf(Matching)]

\* The metadata of the entity can be read, or is never read (no points).
MetadataRead == cPoints = <<>> \/ cEntity.layerOk

\* C1 as stated: for every primitive, the verdict and reason of
\* is_phantom_entity are those of the first of the rules 1, 2, 3, 4a, 4b,
\* 4c, 5 whose condition holds, and the primitive is valid with reason
\* "valid entity" if and only if no rule's condition holds.
C1_FirstMatchForEveryPrimitive == cDone => FirstMatchDecides

\* C1, amended: the same for every primitive whose metadata can be read; a
\* primitive with points whose layer cannot be read is phantom with the
\* reason of the error handler, whatever rules hold.
C1_FirstMatchWhenMetadataRead ==
    cDone =>
        /\ MetadataRead => FirstMatchDecides
        /\ ~MetadataRead =>
              /\ cVerdict.is_phantom
              /\ cVerdict.reason.msg = "Error procesando entidad"

\* A visible line off the phantom layers on which rules 4b, 4c and 5 hold
\* together and 4a does not: it was rejected as too long.
C1_Witness ==
    /\ cDone
    /\ cEntity.layerOk
    /\ Matching = {5, 6, 7}
    /\ cVerdict.is_phantom
    /\ cVerdict.reason.msg = "Linea demasiado larga"

\* A line whose geometry can be read and that has an endpoint at (0, 0).
OriginLine ==
    /\ cEntity.type = "LINE"
    /\ cEntity.bad = 0
    /\ cEntity.pts[1] = Point(0, 0) \/ cEntity.pts[2] = Point(0, 0)

\* C8 as stated: a Line with an endpoint at (0.0, 0.0) is classified
\* phantom with a reason that mentions the origin, for every layer name,
\* visibility flag, other endpoint and design statistics.
C8_OriginLineRejectedForOrigin ==
    (cDone /\ OriginLine /\ cEntity.layerOk) =>
        /\ cVerdict.is_phantom
        /\ cVerdict.reason.msg = "Linea conecta con origen (0,0)"

\* C8, amended: a Line with an endpoint at (0.0, 0.0) is always classified
\* phantom; the reason mentions the origin when its layer can be read, is
\* not a phantom layer and the line is not invisible, and is otherwise the
\* reason of the layer rule, the visibility rule or the error handler,
\* which come first.
C8_OriginLineAlwaysPhantom ==
    (cDone /\ OriginLine) =>
        /\ cVerdict.is_phantom
        /\ cVerdict.reason.msg =
             IF ~cEntity.layerOk THEN "Error procesando entidad"
             ELSE IF RuleHolds[2] THEN "Capa fantasma"
             ELSE IF cEntity.invisible THEN "Entidad invisible"
             ELSE "Linea conecta con origen (0,0)"

\* A visible line on layer CUT that ends, and does not start, at the origin
\* was rejected for the origin.
C8_Witness ==
    /\ cDone
    /\ OriginLine
    /\ cEntity.pts[1] # Point(0, 0)
    /\ cEntity.layer = "CUT"
    /\ ~cEntity.invisible
    /\ cVerdict.is_phantom
    /\ cVerdict.reason.msg = "Linea conecta con origen (0,0)"

\* ------------------------------------------ claims on process_dxf_file
\* process_dxf_file has returned for request r, and had read its file.
Returned(r) == pc[r] = "done" /\ result[r] # Failure("readfile")

Succeeded(r) == pc[r] = "done" /\ result[r].success

ValidOf(r) == result[r].entities.valid

PhantomOf(r) == result[r].entities.phantom

\* The entities of the file of r that the loop classifies, in file order.
Classifiable(r) ==
    SelectSeq(all_entities[r], LAMBDA entity : ~Skipped(entity))

\* What the classifier and the sampler make of them, in file order.
Classified(r) ==
    LET classifiable == Classifiable(r)
    IN [i \in 1..Len(classifiable) |->
          Processed(classifiable[i], design_stats[r])]

\* C2 as stated: no error raised while processing one primitive stops the
\* run; whatever the file, process_dxf_file goes through every primitive
\* and returns a successful result.
C2_EveryRunCompletes ==
    \A r \in Requests :
        Returned(r) =>
            /\ result[r].success
            /\ idx[r] = Len(all_entities[r]) + 1

\* C3 as stated: a primitive of a recognised type whose sampling yields no
\* point is reported in the phantom list, with the reason "no valid
\* points", and is counted among the phantoms.
C3_EmptySamplingReported ==
    \A r \in Requests :
        Succeeded(r) =>
            \A i \in 1..Len(all_entities[r]) :
                LET entity == all_entities[r][i]
                IN (entity.type \in RecognisedTypes
                    /\ get_entity_points(entity) = <<>>) =>
                       /\ result[r].statistics.phantom_entities >= 1
                       /\ \E j \in 1..Len(PhantomOf(r)) :
                             /\ PhantomOf(r)[j].entity_type = entity.type
                             /\ PhantomOf(r)[j].points = <<>>
                             /\ PhantomOf(r)[j].rejection_reason.msg
                                  = "Sin puntos validos"

\* C4: in every successful result the total cut length is the sum of the
\* lengths of the primitives of the valid list, which are the lengths of
\* the primitives of the file classified valid; no phantom's length is in
\* it.
C4_CutLengthOverValidOnly ==
    \A r \in Requests :
        Succeeded(r) =>
            LET valid == ValidOf(r)
                classified == Classified(r)
            IN /\ result[r].cut_length.total_mm
                    = SumSeq([i \in 1..Len(valid) |-> valid[i].length])
               /\ result[r].cut_length.total_mm
                    = SumSeq([i \in 1..Len(classified) |->
                                IF classified[i].is_valid
                                THEN classified[i].length ELSE 0])
               /\ result[r].cut_length.total_m
                    = result[r].cut_length.total_mm

\* A successful result with a phantom of positive length ahead of a valid
\* primitive in the file.
C4_Witness ==
    \E r \in Requests :
        /\ Succeeded(r)
        /\ Len(Classified(r)) >= 2
        /\ ~Classified(r)[1].is_valid
        /\ Classified(r)[1].length > 0
        /\ Classified(r)[2].is_valid
        /\ result[r].cut_length.total_mm = Classified(r)[2].length
        /\ result[r].cut_length.total_mm > 0

\* The file of r holds no entity of a recognised type.
NothingRecognised(r) ==
    \A i \in 1..Len(all_entities[r]) :
        all_entities[r][i].type \notin RecognisedTypes

\* What C5 says of the result besides its total count.
EmptyDesignResult(r) ==
    /\ result[r].success
    /\ result[r].statistics.valid_entities = 0
    /\ result[r].statistics.phantom_entities = 0
    /\ result[r].entities.valid = <<>>
    /\ result[r].entities.phantom = <<>>
    /\ result[r].statistics.design_center.sx = 0
    /\ result[r].statistics.design_center.sy = 0
    /\ result[r].statistics.max_design_dimension * MMPerMetre = 1000
    /\ result[r].bounding_box = BoundingBox(0, 0, 0, 0)
    /\ result[r].bounding_box.area = 0
    /\ result[r].cut_length.total_mm = 0

\* C5 as stated: a file with no primitive of a recognised type (empty, or
\* of unrecognised types only) gives a successful result whose total,
\* valid and phantom counts are zero, with the fallback statistics
\* (centre (0,0), max_dimension 1000), the box (0,0,0,0) and cut length 0.
C5_EmptyDesignAllCountsZero ==
    \A r \in Requests :
        (Returned(r) /\ NothingRecognised(r)) =>
            /\ EmptyDesignResult(r)
            /\ result[r].statistics.total_entities = 0

\* C5, amended: the same, except that the total count is the number of
\* entities of the file, unrecognised ones included; it is zero for the
\* empty file only.
C5_EmptyDesignTotalCountsFile ==
    \A r \in Requests :
        (Returned(r) /\ NothingRecognised(r)) =>
            /\ EmptyDesignResult(r)
            /\ result[r].statistics.total_entities = Len(all_entities[r])

\* A file of unrecognised entities only has been analysed.
C5_Witness ==
    \E r \in Requests :
        /\ Succeeded(r)
        /\ NothingRecognised(r)
        /\ Len(all_entities[r]) >= 1
        /\ result[r].statistics.total_entities >= 1
        /\ result[r].statistics.max_design_dimension = FallbackDimension

\* C6: the lists are empty when a run's classification loop begins, two
\* runs of the one processor on the same file return the same result, and
\* a result holds no more entities than its own file gives it.
C6_RunsIndependent ==
    /\ \A r \in Requests :
          (pc[r] = "loop" /\ idx[r] = 1) =>
              valid_entities = <<>> /\ phantom_entities = <<>>
    /\ \A r, q \in Requests :
          (Returned(r) /\ Returned(q) /\ all_entities[r] = all_entities[q])
              => result[r] = result[q]
    /\ \A r \in Requests :
          Succeeded(r) =>
              Len(ValidOf(r)) + Len(PhantomOf(r)) = Len(Classifiable(r))

\* Two runs, one after the other, of the same file with a valid and a
\* phantom primitive returned the same successful result.
C6_Witness ==
    /\ Succeeded(1)
    /\ Succeeded(2)
    /\ all_entities[1] = all_entities[2]
    /\ Len(ValidOf(1)) >= 1
    /\ Len(PhantomOf(1)) >= 1
    /\ result[1] = result[2]

\* C7 as stated: two analyses share no mutable state: what a run finds in
\* the processor when it enters process_dxf_file was not written by
\* another run.
C7_RunsShareNoMutableState ==
    \A r \in Requests :
        pc[r] = "loaded" => valid_entities = <<>> /\ phantom_entities = <<>>

\* The points of the valid primitives of the result of r.
ValidPoints(r) == EntityPoints(ValidOf(r))

\* C9: the bounding box of a successful result is the least box around
\* every point of the valid primitives, with max >= min, and is (0,0,0,0)
\* with area 0 when there is no valid primitive.
C9_BoundingBoxOverValid ==
    \A r \in Requests :
        Succeeded(r) =>
            LET box == result[r].bounding_box
                points == ValidPoints(r)
            IN IF ValidOf(r) = <<>>
               THEN /\ box.min_x = 0 /\ box.min_y = 0
                    /\ box.max_x = 0 /\ box.max_y = 0
                    /\ box.area = 0
               ELSE /\ points # <<>>
                    /\ \A i \in 1..Len(points) :
                          /\ box.min_x <= points[i].x
                          /\ points[i].x <= box.max_x
                          /\ box.min_y <= points[i].y
                          /\ points[i].y <= box.max_y
                    /\ \E i \in 1..Len(points) : points[i].x = box.min_x
                    /\ \E i \in 1..Len(points) : points[i].x = box.max_x
                    /\ \E i \in 1..Len(points) : points[i].y = box.min_y
                    /\ \E i \in 1..Len(points) : points[i].y = box.max_y
                    /\ box.max_x >= box.min_x
                    /\ box.max_y >= box.min_y
                    /\ box.width = box.max_x - box.min_x
                    /\ box.height = box.max_y - box.min_y

\* A successful result with a box of positive area and a phantom that has
\* a point outside it.
C9_Witness ==
    \E r \in Requests :
        /\ Succeeded(r)
        /\ result[r].bounding_box.area > 0
        /\ \E j \in 1..Len(PhantomOf(r)) :
              \E k \in 1..Len(PhantomOf(r)[j].points) :
                  PhantomOf(r)[j].points[k].x < result[r].bounding_box.min_x

\* C10: the valid list and the phantom list of a successful result are the
\* classified primitives of each kind in the order of the file; a valid
\* entry has is_valid true and no reason, a phantom entry is_valid false
\* and a reason.
C10_PartitionKeepsOrder ==
    \A r \in Requests :
        Succeeded(r) =>
            LET classified == Classified(r)
            IN /\ ValidOf(r) = SelectSeq(classified, LAMBDA e : e.is_valid)
               /\ PhantomOf(r)
                    = SelectSeq(classified, LAMBDA e : ~e.is_valid)
               /\ \A i \in 1..Len(ValidOf(r)) :
                     /\ ValidOf(r)[i].is_valid
                     /\ ValidOf(r)[i].rejection_reason = NoReason
               /\ \A i \in 1..Len(PhantomOf(r)) :
                     /\ ~PhantomOf(r)[i].is_valid
                     /\ PhantomOf(r)[i].rejection_reason # NoReason

\* A successful result whose valid list holds two different primitives.
C10_Witness ==
    \E r \in Requests :
        /\ Succeeded(r)
        /\ Len(ValidOf(r)) = 2
        /\ ValidOf(r)[1] # ValidOf(r)[2]
        /\ ValidOf(r)[1] = Classified(r)[1]

====
